---- MODULE Spec2Model ----
(***************************************************************************)
(* A model of capita_library_search.py: the HTTP fetcher (simple_get,      *)
(* is_good_response), the CapitaSearch constructor (validation, URL        *)
(* building, listing fetch, per-container extraction, per-item detail      *)
(* fetch), getBranchResultItem, and the drivers do_search and              *)
(* do_search_from_file.                                                    *)
(*                                                                         *)
(* Text the code only copies or concatenates is a TLA+ string; text the    *)
(* code inspects character by character (the href the regular expression   *)
(* searches, the Content-Type header, the lines of a batch file, the item  *)
(* status that is stripped) is a sequence of one-character strings.        *)
(* A parsed HTML document is the tree of the elements the selectors of the *)
(* code look for; an absent argument (None) and the empty string are both  *)
(* the empty string, as the code only tests their truth value.             *)
(***************************************************************************)
EXTENDS Integers, Sequences, FiniteSets, TLC

\* ------------------------------------------------------------------ bounds

\* Most div.summary containers in a listing page fetched by a single search.
MaxContainers == 3

\* Most div.summary containers in a listing page fetched during a batch run.
MaxBatchContainers == 1

\* Most lines of a batch file.
MaxLines == 3

\* ------------------------------------------------------- character helpers

Digits == {"0", "1", "2", "3", "4", "5", "6", "7", "8", "9"}

\* The letters str.lower() changes among the characters a header value can
\* hold. http.client decodes header bytes as ISO-8859-1, so the characters of
\* resp.headers[...] are the code points up to U+00FF: A to Z and U+00C0 to
\* U+00DE without U+00D7, each lowered to the letter 32 code points above it.
UpperLetters == <<"A", "B", "C", "D", "E", "F", "G", "H", "I", "J", "K", "L", "M",
                  "N", "O", "P", "Q", "R", "S", "T", "U", "V", "W", "X", "Y", "Z",
                  "À", "Á", "Â", "Ã", "Ä", "Å", "Æ", "Ç", "È", "É", "Ê", "Ë", "Ì",
                  "Í", "Î", "Ï", "Ð", "Ñ", "Ò", "Ó", "Ô", "Õ", "Ö", "Ø", "Ù", "Ú",
                  "Û", "Ü", "Ý", "Þ">>

LowerLetters == <<"a", "b", "c", "d", "e", "f", "g", "h", "i", "j", "k", "l", "m",
                  "n", "o", "p", "q", "r", "s", "t", "u", "v", "w", "x", "y", "z",
                  "à", "á", "â", "ã", "ä", "å", "æ", "ç", "è", "é", "ê", "ë", "ì",
                  "í", "î", "ï", "ð", "ñ", "ò", "ó", "ô", "õ", "ö", "ø", "ù", "ú",
                  "û", "ü", "ý", "þ">>

\* The characters str.isspace() holds for, which str.split() and str.strip()
\* take for whitespace: space, tab, line feed, carriage return, form feed, then,
\* written as the characters themselves, vertical tab (U+000B), the four
\* separators U+001C to U+001F, next line (U+0085), no-break space (U+00A0)
\* and ogham space mark (U+1680). The other spaces of Unicode (U+2000 to
\* U+200A, U+2028, U+2029, U+202F, U+205F, U+3000) cannot be written in a
\* string of a module. A literal counts only when it is read as one character:
\* where the module is not read as UTF-8 the literals beyond ASCII are several
\* characters long and stand for no character at all.
Whitespace ==
    {c \in {" ", "\t", "\n", "\r", "\f",
            "", "", "", "", "", "", " ", " "} :
        Len(c) = 1}

\* The string spelled by a sequence of characters.
RECURSIVE Join(_)
Join(cs) == IF cs = <<>> THEN "" ELSE Head(cs) \o Join(Tail(cs))

\* str.lower() on one character.
LowerChar(c) ==
    IF \E i \in 1..Len(UpperLetters) : UpperLetters[i] = c
    THEN LowerLetters[CHOOSE i \in 1..Len(UpperLetters) : UpperLetters[i] = c]
    ELSE c

\* str.lower()
Lower(cs) == [i \in 1..Len(cs) |-> LowerChar(cs[i])]

\* str.find(sub): the 0-based index of the first occurrence, or -1.
Find(cs, sub) ==
    LET hits == {i \in 1..(Len(cs) - Len(sub) + 1) : SubSeq(cs, i, i + Len(sub) - 1) = sub}
    IN  IF hits = {} THEN -1 ELSE (CHOOSE i \in hits : \A j \in hits : i <= j) - 1

\* str.strip()
Strip(cs) ==
    LET keep == {i \in 1..Len(cs) : cs[i] \notin Whitespace}
    IN  IF keep = {} THEN <<>>
        ELSE SubSeq(cs, CHOOSE i \in keep : \A j \in keep : i <= j,
                        CHOOSE i \in keep : \A j \in keep : i >= j)

\* str.split(): the maximal runs of non-whitespace characters, in order.
RECURSIVE SplitFrom(_, _, _, _)
SplitFrom(cs, i, cur, acc) ==
    IF i > Len(cs)
    THEN IF cur = <<>> THEN acc ELSE Append(acc, cur)
    ELSE IF cs[i] \in Whitespace
         THEN SplitFrom(cs, i + 1, <<>>, IF cur = <<>> THEN acc ELSE Append(acc, cur))
         ELSE SplitFrom(cs, i + 1, Append(cur, cs[i]), acc)

Split(cs) == SplitFrom(cs, 1, <<>>, <<>>)

\* " ".join(words), as a string.
RECURSIVE JoinWords(_)
JoinWords(ws) ==
    IF ws = <<>> THEN ""
    ELSE IF Len(ws) = 1 THEN Join(ws[1])
    ELSE Join(ws[1]) \o " " \o JoinWords(Tail(ws))

\* Python's truth value of a string (or None).
Truthy(s) == s # ""

\* -------------------------------------------------------- domain records

\* CatalogueItem()
CatalogueItem == [status |-> "", barcode |-> 0, shelfmark |-> "", item_type |-> ""]

\* BranchResultItem()
BranchResultItem == [name |-> "", items |-> <<>>]

\* SearchResultItem()
SearchResultItem ==
    [item_id |-> "default", title |-> "default", publisher |-> "default",
     link |-> "default", summary |-> "default", available |-> "default",
     branches |-> <<>>]

\* -------------------------------------------------------------- documents
\* What the selectors of the code can see of an HTML document: the div.summary
\* containers inside div#searchResults, in document order, and the (first)
\* div#availability. "empty" says the body has no bytes at all.

c_items == <<"i", "t", "e", "m", "s", "/">>

\* a div.summary with heading, anchor, title, an href holding id 101, publisher
\* and summary
ContFull ==
    [h2 |-> TRUE, a |-> TRUE, hasTitle |-> TRUE, titleAttr |-> "Emma",
     hasHref |-> TRUE, href |-> c_items \o <<"1", "0", "1", "?", "q">>,
     pubDiv |-> TRUE, pubSpan |-> TRUE, pubText |-> "Penguin",
     summDiv |-> TRUE, summSpan |-> TRUE, summText |-> "A novel"]

\* an anchor without title attribute, id 7 after a path prefix, no publisher
\* block, a summary block without its span
ContSparse ==
    [h2 |-> TRUE, a |-> TRUE, hasTitle |-> FALSE, titleAttr |-> "",
     hasHref |-> TRUE, href |-> <<"/">> \o c_items \o <<"7", "?">>,
     pubDiv |-> FALSE, pubSpan |-> FALSE, pubText |-> "",
     summDiv |-> TRUE, summSpan |-> FALSE, summText |-> ""]

\* no h2.title at all
ContNoH2 ==
    [h2 |-> FALSE, a |-> FALSE, hasTitle |-> FALSE, titleAttr |-> "",
     hasHref |-> FALSE, href |-> <<>>,
     pubDiv |-> TRUE, pubSpan |-> TRUE, pubText |-> "Vintage",
     summDiv |-> TRUE, summSpan |-> TRUE, summText |-> "Stories"]

\* a heading without anchor
ContNoAnchor ==
    [h2 |-> TRUE, a |-> FALSE, hasTitle |-> FALSE, titleAttr |-> "",
     hasHref |-> FALSE, href |-> <<>>,
     pubDiv |-> TRUE, pubSpan |-> FALSE, pubText |-> "",
     summDiv |-> FALSE, summSpan |-> FALSE, summText |-> ""]

\* an href with no digits between items/ and ?
ContBadHref ==
    [h2 |-> TRUE, a |-> TRUE, hasTitle |-> TRUE, titleAttr |-> "Persuasion",
     hasHref |-> TRUE, href |-> c_items \o <<"a", "b", "?">>,
     pubDiv |-> TRUE, pubSpan |-> TRUE, pubText |-> "Penguin",
     summDiv |-> TRUE, summSpan |-> TRUE, summText |-> "A novel"]

\* an href with digits but no ? after them
ContNoQuery ==
    [h2 |-> TRUE, a |-> TRUE, hasTitle |-> TRUE, titleAttr |-> "Sanditon",
     hasHref |-> TRUE, href |-> c_items \o <<"4", "2">>,
     pubDiv |-> FALSE, pubSpan |-> FALSE, pubText |-> "",
     summDiv |-> TRUE, summSpan |-> TRUE, summText |-> "Unfinished"]

Containers == {ContFull, ContSparse, ContNoH2, ContNoAnchor, ContBadHref, ContNoQuery}

RowFull ==
    [hasSerial |-> TRUE, serial |-> "30120", hasSku |-> TRUE, sku |-> "F",
     hasLoan |-> TRUE, loan |-> "Adult fiction",
     hasStatus |-> TRUE,
     status |-> <<"\f", " ", "A", "v", "a", "i", "l", "a", "b", "l", "e", "", "\n">>]

RowBare ==
    [hasSerial |-> FALSE, serial |-> "", hasSku |-> FALSE, sku |-> "",
     hasLoan |-> FALSE, loan |-> "", hasStatus |-> FALSE, status |-> <<>>]

LiCentral == [hasName |-> TRUE, name |-> "Central", tbody |-> TRUE, rows |-> <<RowFull, RowBare>>]

LiNoTable == [hasName |-> TRUE, name |-> "North", tbody |-> FALSE, rows |-> <<>>]

\* a branch element without a span itemprop="name" (its table has a row)
LiUnnamed == [hasName |-> FALSE, name |-> "", tbody |-> TRUE, rows |-> <<RowFull>>]

NoAvailability ==
    [present |-> FALSE, statusDiv |-> FALSE, pBranches |-> FALSE, pText |-> "",
     ul |-> FALSE, lis |-> <<>>]

AvailBranches ==
    [present |-> TRUE, statusDiv |-> TRUE, pBranches |-> TRUE,
     pText |-> "Available at 1 of 2 branches", ul |-> TRUE,
     lis |-> <<LiCentral, LiUnnamed, LiNoTable>>]

AvailUnnamedOnly ==
    [present |-> TRUE, statusDiv |-> TRUE, pBranches |-> FALSE, pText |-> "",
     ul |-> TRUE, lis |-> <<LiUnnamed>>]

AvailNoList ==
    [present |-> TRUE, statusDiv |-> TRUE, pBranches |-> TRUE, pText |-> "On loan",
     ul |-> FALSE, lis |-> <<>>]

Availabilities == {NoAvailability, AvailBranches, AvailUnnamedOnly, AvailNoList}

EmptyBody == [empty |-> TRUE, summaries |-> <<>>, availability |-> NoAvailability]

ListingDoc(divs) == [empty |-> FALSE, summaries |-> divs, availability |-> NoAvailability]

DetailDoc(av) == [empty |-> FALSE, summaries |-> <<>>, availability |-> av]

\* The sequences over S of length at most n.
SeqUpTo(S, n) == UNION {[1..k -> S] : k \in 0..n}

\* ---------------------------------------------------------- HTTP responses

HTTP_OK == 200
\* What requests.get(url, stream=True) does: raise a RequestException, or hand
\* back a response with a status, possibly a Content-Type header, and a body.

c_text_html == <<"t", "e", "x", "t", "/", "h", "t", "m", "l">>

c_TEXT_HTML == <<"T", "e", "x", "t", "/", "H", "T", "M", "L", ";", "É">>

c_json == <<"j", "s", "o", "n">>

Response(st, hasCt, ct, body) ==
    [requestException |-> FALSE, status |-> st, hasContentType |-> hasCt,
     contentType |-> ct, content |-> body]

RequestFailed ==
    [requestException |-> TRUE, status |-> 0, hasContentType |-> FALSE,
     contentType |-> <<>>, content |-> EmptyBody]

\* The responses that carry no usable page, whatever the url.
BadResponses ==
    { RequestFailed,
      Response(404, TRUE, c_text_html, EmptyBody),
      Response(404, FALSE, <<>>, EmptyBody),
      Response(HTTP_OK, TRUE, c_json, EmptyBody),
      Response(HTTP_OK, FALSE, <<>>, EmptyBody) }

\* The pages a listing url can answer with, holding at most n containers.
ListingResponses(n) ==
    BadResponses
    \cup {Response(HTTP_OK, TRUE, c_text_html, EmptyBody)}
    \cup {Response(HTTP_OK, TRUE, c_TEXT_HTML, ListingDoc(<<>>))}
    \cup {Response(HTTP_OK, TRUE, c_text_html, ListingDoc(divs)) :
            divs \in SeqUpTo(Containers, n) \ {<<>>}}

\* The pages a detail url can answer with.
DetailResponses ==
    BadResponses
    \cup {Response(HTTP_OK, TRUE, c_text_html, EmptyBody)}
    \cup {Response(HTTP_OK, TRUE, c_text_html, DetailDoc(av)) : av \in Availabilities}

\* requests.get raises MissingSchema, a RequestException, for a url without a
\* scheme; every url the code builds starts with capita_url, so the only such
\* url is the sentinel link "default".
HasScheme(url) == url # "default"

\* The outcomes of requests.get(url).
get(url, n, listing) ==
    IF ~HasScheme(url) THEN {RequestFailed}
    ELSE IF listing THEN ListingResponses(n) ELSE DetailResponses

\* ------------------------------------------------------------ HTTP fetcher

html_chars == <<"h", "t", "m", "l">>

\* is_good_response(resp). resp.headers['Content-Type'] raises KeyError when the
\* response declares no content type; the result is then "KeyError".
is_good_response(resp) ==
    IF ~resp.hasContentType THEN "KeyError"
    ELSE LET content_type == Lower(resp.contentType)
         IN  IF resp.status = HTTP_OK /\ Find(content_type, html_chars) > -1
             THEN "True" ELSE "False"

\* simple_get(url), given what requests.get did for the url. The outcome is a
\* record: raised (the exception that leaves simple_get, or "none"), isNone
\* (the return value is None), logged (log_error was called), and content (the
\* bytes returned, when not None).
simple_get(resp) ==
    IF resp.requestException
    THEN [raised |-> "none", isNone |-> TRUE, logged |-> TRUE, content |-> EmptyBody]
    ELSE LET good == is_good_response(resp)
         IN  IF good = "KeyError"
             THEN [raised |-> "KeyError", isNone |-> FALSE, logged |-> FALSE,
                   content |-> EmptyBody]
             ELSE IF good = "True"
             THEN [raised |-> "none", isNone |-> FALSE, logged |-> FALSE,
                   content |-> resp.content]
             ELSE [raised |-> "none", isNone |-> TRUE, logged |-> FALSE,
                   content |-> EmptyBody]

\* ---------------------------------------------------------- HTML extractor

\* The length of the run of digits of cs that starts at position k.
RECURSIVE DigitRun(_, _)
DigitRun(cs, k) ==
    IF k <= Len(cs) /\ cs[k] \in Digits THEN 1 + DigitRun(cs, k + 1) ELSE 0

\* Whether items/([0-9]+)\? matches cs at position i. The digits are matched
\* greedily and a shorter run is followed by a digit, never by "?", so there
\* is a match exactly when the whole run is followed by "?".
MatchesAt(cs, i) ==
    /\ i + Len(c_items) - 1 <= Len(cs)
    /\ SubSeq(cs, i, i + Len(c_items) - 1) = c_items
    /\ LET n == DigitRun(cs, i + Len(c_items))
       IN  /\ n >= 1
           /\ i + Len(c_items) + n <= Len(cs)
           /\ cs[i + Len(c_items) + n] = "?"

\* re.search(r'items/([0-9]+)\?', temp_link): whether there is a match, and
\* group(1) of the leftmost one.
re_search(cs) ==
    LET hits == {i \in 1..Len(cs) : MatchesAt(cs, i)}
    IN  IF hits = {} THEN [matched |-> FALSE, group1 |-> ""]
        ELSE LET i == CHOOSE h \in hits : \A j \in hits : h <= j
                 n == DigitRun(cs, i + Len(c_items))
             IN  [matched |-> TRUE,
                  group1 |-> Join(SubSeq(cs, i + Len(c_items), i + Len(c_items) + n - 1))]

c_NOT_FOUND == <<"N", "O", "T", " ", "F", "O", "U", "N", "D">>

\* The heading block of the loop body: title, item_id and link.
ExtractHeading(item, div, b_url) ==
    IF div.h2 /\ div.a
    THEN LET temp_link == IF div.hasHref THEN div.href ELSE c_NOT_FOUND
             match_obj == re_search(temp_link)
             titled    == [item EXCEPT !.title =
                              IF div.hasTitle THEN div.titleAttr ELSE "NOT FOUND"]
         IN  IF match_obj.matched
             THEN [titled EXCEPT !.item_id = match_obj.group1,
                                 !.link = b_url \o "items/" \o match_obj.group1]
             ELSE titled
    ELSE item

\* The publisher block of the loop body.
ExtractPublisher(item, div) ==
    IF div.pubDiv /\ div.pubSpan THEN [item EXCEPT !.publisher = div.pubText] ELSE item

\* The summary block of the loop body.
ExtractSummary(item, div) ==
    IF div.summDiv /\ div.summSpan THEN [item EXCEPT !.summary = div.summText] ELSE item

\* new_item as it stands before the availability step.
ExtractListingFields(div, b_url) ==
    ExtractSummary(ExtractPublisher(ExtractHeading(SearchResultItem, div, b_url), div), div)

\* One CatalogueItem from a table row.
RowItem(row) ==
    [status    |-> IF row.hasStatus THEN Join(Strip(row.status)) ELSE CatalogueItem.status,
     barcode   |-> IF row.hasSerial THEN row.serial ELSE CatalogueItem.barcode,
     shelfmark |-> IF row.hasSku THEN row.sku ELSE CatalogueItem.shelfmark,
     item_type |-> IF row.hasLoan THEN row.loan ELSE CatalogueItem.item_type]

\* getBranchResultItem(branch): a BranchResultItem is made and returned
\* whether or not the branch has a name.
getBranchResultItem(branch) ==
    IF branch.hasName
    THEN [name  |-> branch.name,
          items |-> IF branch.tbody
                    THEN [i \in 1..Len(branch.rows) |-> RowItem(branch.rows[i])]
                    ELSE BranchResultItem.items]
    ELSE BranchResultItem

\* How a plausible variant would skip the branches that have no name.
RECURSIVE BranchResultsSkipUnnamed(_)
BranchResultsSkipUnnamed(li_branches) ==
    IF li_branches = <<>> THEN <<>>
    ELSE IF Head(li_branches).hasName
         THEN <<getBranchResultItem(Head(li_branches))>>
                  \o BranchResultsSkipUnnamed(Tail(li_branches))
         ELSE BranchResultsSkipUnnamed(Tail(li_branches))

\* The loop over li_branches: one add_branch_result per li element.
BranchResults(li_branches) ==
    [i \in 1..Len(li_branches) |-> getBranchResultItem(li_branches[i])]

\* The availability block of the loop body, on the parsed detail page.
ExtractAvailability(item, doc) ==
    LET av == doc.availability
    IN  IF ~av.present THEN item
        ELSE [item EXCEPT
                !.available = IF av.statusDiv /\ av.pBranches THEN av.pText ELSE @,
                !.branches  = IF av.ul THEN @ \o BranchResults(av.lis) ELSE @]

\* ------------------------------------------------------------------ inputs

\* The command-line arguments of a single search ("" when the flag is absent).
Titles == {"", "emma"}

Authors == {"", "austen"}

Boroughs == {"", "camden"}

\* The lines a batch file is made of, each with its line end.
LineBoroughCamden == <<"-", "b", " ", "c", "a", "m", "d", "e", "n", "\n">>

LineBoroughBrent == <<"-", "b", "\f", "", "b", "r", "e", "n", "t", "\n">>

LineAuthor == <<"-", "a", " ", "j", "a", "n", "e", " ", " ", "a", "u", "s", "t", "e", "n", "\n">>

LineTitleEmma == <<"-", "t", " ", "e", "m", "m", "a", "\n">>

LineTitlePark == <<"-", "t", "\t", "m", "a", "n", "s", "f", "i", "e", "l", "d", " ", " ", "p", "a", "r", "k", "\n">>

LineBareTitle == <<"-", "t", "\n">>

LineComment == <<"#", " ", "n", "o", "t", "e", "\n">>

LineKinds == {LineBoroughCamden, LineBoroughBrent, LineAuthor, LineTitleEmma, LineTitlePark, LineBareTitle, LineComment}

\* ------------------------------------------------------------------- state

VARIABLES
    pc,             \* where the program is
    filename,       \* whether the program was started with --filename
    lines,          \* the lines of the batch file
    lineIdx,        \* the line do_search_from_file reads next
    title,          \* title, author, borough: the arguments of a single
    author,         \*   search, or the locals of do_search_from_file
    borough,
    search_results, \* the searches returned so far
    borough_url,    \* self.borough_url
    search_url,     \* self.search_url
    items_found,    \* self.items_found
    error_message,  \* self.error_message
    divs,           \* the div.summary elements the loop runs over
    divIdx,         \* the element the loop is at
    new_item,       \* new_item of the loop body
    fetch_log,      \* the calls of simple_get made by the current search
    exception,      \* the exception that ended the program, or "none"
    logged          \* the messages log_error printed in the current search

vars == <<pc, filename, lines, lineIdx, title, author, borough, search_results,
          borough_url, search_url, items_found, error_message, divs, divIdx,
          new_item, fetch_log, exception, logged>>

batchVars == <<filename, lines, lineIdx, title, author, borough, search_results>>

capita_url == "https://capitadiscovery.co.uk/"

default_borough == "islington"

could_not_get == "could not get web page"

must_supply == "IslingtonSearch: must supply title and/or author\n"

error_during == "Error during requests"

\* The most containers a listing page holds in this run.
PageBound == IF filename THEN MaxBatchContainers ELSE MaxContainers

\* The fields every new CapitaSearch starts with.
Constructed ==
    /\ borough_url = ""
    /\ search_url = ""
    /\ items_found = <<>>
    /\ error_message = ""
    /\ divs = <<>>
    /\ divIdx = 0
    /\ new_item = SearchResultItem
    /\ fetch_log = <<>>
    /\ exception = "none"
    /\ logged = {}

\* python capita_library_search.py -t T -a A -b B: do_search calls CapitaSearch.
Init ==
    /\ pc = "init"
    /\ filename = FALSE
    /\ lines = <<>>
    /\ lineIdx = 0
    /\ title \in Titles
    /\ author \in Authors
    /\ borough \in Boroughs
    /\ search_results = <<>>
    /\ Constructed

\* python capita_library_search.py -f F: do_search_from_file opens the file.
InitBatch ==
    /\ pc = "line"
    /\ filename = TRUE
    /\ lines \in SeqUpTo(LineKinds, MaxLines)
    /\ lineIdx = 1
    /\ title = ""
    /\ author = ""
    /\ borough = ""
    /\ search_results = <<>>
    /\ Constructed

\* ---------------------------------------------------- CapitaSearch.__init__

\* A variant that takes a query for invalid unless both terms are given.
IsInvalidQueryBoth(t, a) == ~(Truthy(t) /\ Truthy(a))

\* not (title or author)
IsInvalidQuery(t, a) == ~(Truthy(t) \/ Truthy(a))

\* self.borough_url
build_borough_url(b) ==
    capita_url \o (IF Truthy(b) THEN b ELSE default_borough) \o "/"

\* A variant that appends the author clause whether or not there is a title.
build_search_url_author_alone(b_url, t, a) ==
    LET u0 == b_url \o "items?query="
        u1 == IF Truthy(t) THEN u0 \o "+title%3A%28" \o t \o "%29" ELSE u0
        u2 == IF Truthy(a)
              THEN (IF Truthy(t) THEN u1 \o "+AND" ELSE u1)
                       \o "+author%3A%28" \o a \o "%29" \o "#availability"
              ELSE u1
    IN  u2

\* self.search_url, built by the appends of the code, in their order.
build_search_url(b_url, t, a) ==
    LET u0 == b_url \o "items?query="
        u1 == IF Truthy(t) THEN u0 \o "+title%3A%28" \o t \o "%29" ELSE u0
        u2 == IF Truthy(a)
              THEN IF Truthy(t)
                   THEN ((u1 \o "+AND") \o "+author%3A%28" \o a \o "%29") \o "#availability"
                   ELSE u1
              ELSE u1
    IN  u2

\* The fields the constructor sets before anything else.
ResetSelf ==
    /\ items_found' = <<>>
    /\ error_message' = ""
    /\ divs' = <<>>
    /\ divIdx' = 0
    /\ new_item' = SearchResultItem
    /\ fetch_log' = <<>>

\* A variant that records the invalid query in error_message.
InvalidQuerySurfaced ==
    /\ pc = "init"
    /\ IsInvalidQuery(title, author)
    /\ items_found' = <<>>
    /\ divs' = <<>>
    /\ divIdx' = 0
    /\ new_item' = SearchResultItem
    /\ fetch_log' = <<>>
    /\ borough_url' = ""
    /\ search_url' = ""
    /\ error_message' = must_supply
    /\ logged' = {must_supply}
    /\ pc' = "constructed"
    /\ UNCHANGED <<batchVars, exception>>

\* Neither title nor author: log and return, leaving the fields as set.
InvalidQuery ==
    /\ pc = "init"
    /\ IsInvalidQuery(title, author)
    /\ ResetSelf
    /\ borough_url' = ""
    /\ search_url' = ""
    /\ logged' = {must_supply}
    /\ pc' = "constructed"
    /\ UNCHANGED <<batchVars, exception>>

\* A title or an author: build borough_url and search_url.
BuildUrls ==
    /\ pc = "init"
    /\ ~IsInvalidQuery(title, author)
    /\ ResetSelf
    /\ borough_url' = build_borough_url(borough)
    /\ search_url' = build_search_url(build_borough_url(borough), title, author)
    /\ logged' = {}
    /\ pc' = "get"
    /\ UNCHANGED <<batchVars, exception>>

\* One call of simple_get, as the log keeps it.
Fetched(url, isListing, resp) ==
    [url |-> url, listing |-> isListing, resp |-> resp, result |-> simple_get(resp)]

\* not raw_html: None, or a body of no bytes.
not_raw_html(r) == r.isNone \/ r.content.empty

\* raw_html = simple_get(self.search_url), then the error return or the parse
\* and the selection of the containers the loop will run over.
FetchListing ==
    /\ pc = "get"
    /\ \E resp \in get(search_url, PageBound, TRUE) :
         LET f == Fetched(search_url, TRUE, resp)
             r == f.result
         IN  /\ fetch_log' = Append(fetch_log, f)
             /\ logged' = IF r.logged THEN logged \cup {error_during} ELSE logged
             /\ IF r.raised # "none"
                THEN /\ exception' = r.raised
                     /\ pc' = "raised"
                     /\ UNCHANGED <<error_message, divs, divIdx>>
                ELSE IF not_raw_html(r)
                THEN /\ error_message' = could_not_get
                     /\ pc' = "constructed"
                     /\ UNCHANGED <<exception, divs, divIdx>>
                ELSE /\ divs' = r.content.summaries
                     /\ divIdx' = 1
                     /\ pc' = IF r.content.summaries = <<>> THEN "constructed" ELSE "div"
                     /\ UNCHANGED <<exception, error_message>>
    /\ UNCHANGED <<batchVars, borough_url, search_url, items_found, new_item>>

\* The loop body up to the availability step: a new SearchResultItem filled
\* from the container.
ExtractFields ==
    /\ pc = "div"
    /\ new_item' = ExtractListingFields(divs[divIdx], borough_url)
    /\ pc' = "availability"
    /\ UNCHANGED <<batchVars, borough_url, search_url, items_found, error_message,
                   divs, divIdx, fetch_log, exception, logged>>

\* BeautifulSoup(simple_get(new_item.link), 'html.parser'), the availability
\* block and the append. BeautifulSoup(None) raises TypeError.
FetchDetail ==
    /\ pc = "availability"
    /\ \E resp \in get(new_item.link, PageBound, FALSE) :
         LET f == Fetched(new_item.link, FALSE, resp)
             r == f.result
         IN  /\ fetch_log' = Append(fetch_log, f)
             /\ logged' = IF r.logged THEN logged \cup {error_during} ELSE logged
             /\ IF r.raised # "none"
                THEN /\ exception' = r.raised
                     /\ pc' = "raised"
                     /\ UNCHANGED <<items_found, divIdx>>
                ELSE IF r.isNone
                THEN /\ exception' = "TypeError"
                     /\ pc' = "raised"
                     /\ UNCHANGED <<items_found, divIdx>>
                ELSE /\ items_found' =
                            Append(items_found, ExtractAvailability(new_item, r.content))
                     /\ divIdx' = divIdx + 1
                     /\ pc' = IF divIdx < Len(divs) THEN "div" ELSE "constructed"
                     /\ UNCHANGED exception
    /\ UNCHANGED <<batchVars, borough_url, search_url, error_message, divs, new_item>>

\* ----------------------------------------------------------------- drivers

\* The CapitaSearch object the constructor returned, with its arguments.
TheSearch ==
    [title |-> title, author |-> author, borough |-> borough,
     borough_url |-> borough_url, search_url |-> search_url,
     items_found |-> items_found, error_message |-> error_message]

\* do_search: show_search(search), return search; results = [search].
ShowSearch ==
    /\ pc = "constructed"
    /\ ~filename
    /\ search_results' = <<TheSearch>>
    /\ pc' = "returned"
    /\ UNCHANGED <<filename, lines, lineIdx, title, author, borough, borough_url,
                   search_url, items_found, error_message, divs, divIdx, new_item,
                   fetch_log, exception, logged>>

\* parts = line.split()
Parts(line) == Split(line)

\* len(parts) > 1 and parts[0] is the directive d
IsDirective(line, d) == Len(Parts(line)) > 1 /\ Join(Parts(line)[1]) = d

\* content = " ".join(parts[1:])
Content(line) == JoinWords(Tail(Parts(line)))

unchangedSearch ==
    UNCHANGED <<borough_url, search_url, items_found, error_message, divs, divIdx,
                new_item, fetch_log, exception, logged>>

\* A -b line: borough = content.
SetBorough ==
    /\ pc = "line"
    /\ lineIdx <= Len(lines)
    /\ IsDirective(lines[lineIdx], "-b")
    /\ borough' = Content(lines[lineIdx])
    /\ lineIdx' = lineIdx + 1
    /\ UNCHANGED <<pc, filename, lines, title, author, search_results>>
    /\ unchangedSearch

\* A -a line: author = content.
SetAuthor ==
    /\ pc = "line"
    /\ lineIdx <= Len(lines)
    /\ IsDirective(lines[lineIdx], "-a")
    /\ author' = Content(lines[lineIdx])
    /\ lineIdx' = lineIdx + 1
    /\ UNCHANGED <<pc, filename, lines, title, borough, search_results>>
    /\ unchangedSearch

\* A -t line: title = content, then CapitaSearch(title, author, borough).
SetTitle ==
    /\ pc = "line"
    /\ lineIdx <= Len(lines)
    /\ IsDirective(lines[lineIdx], "-t")
    /\ title' = Content(lines[lineIdx])
    /\ pc' = "init"
    /\ UNCHANGED <<filename, lines, lineIdx, author, borough, search_results>>
    /\ unchangedSearch

\* search_results = search_results + [search]; show_search(search); next line.
AppendResult ==
    /\ pc = "constructed"
    /\ filename
    /\ search_results' = Append(search_results, TheSearch)
    /\ lineIdx' = lineIdx + 1
    /\ pc' = "line"
    /\ UNCHANGED <<filename, lines, title, author, borough>>
    /\ unchangedSearch

\* A line of fewer than two parts, or with another first word: nothing.
SkipLine ==
    /\ pc = "line"
    /\ lineIdx <= Len(lines)
    /\ ~IsDirective(lines[lineIdx], "-b")
    /\ ~IsDirective(lines[lineIdx], "-a")
    /\ ~IsDirective(lines[lineIdx], "-t")
    /\ lineIdx' = lineIdx + 1
    /\ UNCHANGED <<pc, filename, lines, title, author, borough, search_results>>
    /\ unchangedSearch

\* The file is read: return search_results.
EndOfFile ==
    /\ pc = "line"
    /\ lineIdx > Len(lines)
    /\ pc' = "returned"
    /\ UNCHANGED <<filename, lines, lineIdx, title, author, borough, search_results>>
    /\ unchangedSearch

\* ----------------------------------------------------------- specifications

Next ==
    \/ InvalidQuery
    \/ BuildUrls
    \/ FetchListing
    \/ ExtractFields
    \/ FetchDetail
    \/ ShowSearch

Spec == Init /\ [][Next]_vars

NextBatch ==
    \/ SetBorough
    \/ SetAuthor
    \/ SetTitle
    \/ SkipLine
    \/ EndOfFile
    \/ BuildUrls
    \/ FetchListing
    \/ ExtractFields
    \/ FetchDetail
    \/ AppendResult

SpecBatch == InitBatch /\ [][NextBatch]_vars

\* ------------------------------------------------------------- properties

\* The constructor has returned (normally).
Returned == pc \in {"constructed", "returned"}

\* A fetch failure: a transport error, a status other than 200 (whatever the
\* headers), or a content type that is not an html one (declared without
\* "html", or not declared at all). It is every outcome of requests.get but a
\* 200 response whose declared content type contains "html".
FailureResponse(resp) ==
    \/ resp.requestException
    \/ resp.status # 200
    \/ ~resp.hasContentType
    \/ ~\E i \in 1..(Len(resp.contentType) - 3) :
            /\ resp.contentType[i] \in {"h", "H"}
            /\ resp.contentType[i + 1] \in {"t", "T"}
            /\ resp.contentType[i + 2] \in {"m", "M"}
            /\ resp.contentType[i + 3] \in {"l", "L"}

\* The detail fetch of the i-th container is the (i+1)-th call of simple_get.
DetailFetchOf(i) == fetch_log[i + 1]

\* The branch elements (li of the first ul.options of div#availability) of the
\* detail page the i-th item was filled from.
BranchElementsOf(i) ==
    LET av == DetailFetchOf(i).resp.content.availability
    IN  IF av.present /\ av.ul THEN av.lis ELSE <<>>

\* C1: a detail fetch that returns no document for an item with an extracted id
\* neither ends the search nor loses the item: the item is appended with
\* available = "default" and no branches.
C1_DetailFailureIsolated ==
    \A k \in 2..Len(fetch_log) :
        (fetch_log[k].url # "default" /\ fetch_log[k].result.isNone)
        => /\ exception = "none"
           /\ Len(items_found) >= k - 1
           /\ items_found[k - 1].available = "default"
           /\ items_found[k - 1].branches = <<>>

\* C2: for a container whose heading yields no id, no detail fetch is attempted
\* (simple_get is never called with the sentinel link) and the item, with its
\* listing fields, is still appended (the search does not end on it).
C2_NoFetchWithoutId ==
    /\ \A k \in 1..Len(fetch_log) : fetch_log[k].url # "default"
    /\ (pc = "raised" /\ divIdx >= 1) => new_item.item_id # "default"

\* C3: the query is refused (the InvalidQuery message is logged) iff title and
\* author are both empty; then no url is built, nothing is fetched and no item
\* is found; otherwise both urls are built and exactly one listing fetch is
\* issued, to search_url.
C3_InvalidQueryIff ==
    pc # "init" =>
        /\ (must_supply \in logged) <=> (title = "" /\ author = "")
        /\ (title = "" /\ author = "")
           => /\ search_url = ""
              /\ borough_url = ""
              /\ fetch_log = <<>>
              /\ items_found = <<>>
        /\ (title # "" \/ author # "")
           => /\ search_url # ""
              /\ borough_url # ""
              /\ pc = "get" => fetch_log = <<>>
              /\ pc # "get"
                 => /\ Cardinality({k \in 1..Len(fetch_log) : fetch_log[k].listing}) = 1
                    /\ fetch_log[1].listing
                    /\ fetch_log[1].url = search_url

\* C3 witness: a search without title and author has returned.
C3_Witness ==
    /\ pc = "returned"
    /\ title = ""
    /\ author = ""
    /\ must_supply \in logged
    /\ search_results[1].search_url = ""

\* C4: when the listing fetch fails (transport error, status other than 200,
\* content type that is not html) the search returns with the message "could
\* not get web page", no items, both urls set and no detail fetch; and a
\* returned search with an error message has no items.
C4_ListingFailure ==
    /\ (Len(fetch_log) >= 1 /\ FailureResponse(fetch_log[1].resp))
       => /\ Returned
          /\ error_message = "could not get web page"
          /\ items_found = <<>>
          /\ search_url # ""
          /\ borough_url # ""
          /\ Len(fetch_log) = 1
          /\ exception = "none"
    /\ (Returned /\ error_message # "") => items_found = <<>>

\* C5: a search whose listing fetch succeeded returns one record per container,
\* the i-th filled from the i-th container, whatever the containers lack.
C5_OneItemPerContainer ==
    (/\ Len(fetch_log) >= 1
     /\ fetch_log[1].result.raised = "none"
     /\ ~fetch_log[1].result.isNone
     /\ ~fetch_log[1].result.content.empty
     /\ pc \notin {"div", "availability"})
    => /\ Returned
       /\ Len(items_found) = Len(fetch_log[1].result.content.summaries)
       /\ \A i \in 1..Len(items_found) :
            LET div == fetch_log[1].result.content.summaries[i]
            IN  /\ items_found[i].publisher =
                      (IF div.pubDiv /\ div.pubSpan THEN div.pubText ELSE "default")
                /\ items_found[i].summary =
                      (IF div.summDiv /\ div.summSpan THEN div.summText ELSE "default")

\* C6 as stated: an item has as many branches as its detail page has branch
\* elements with a name.
C6_UnnamedBranchSkipped ==
    \A i \in 1..Len(items_found) :
        Len(items_found[i].branches) =
            Cardinality({k \in 1..Len(BranchElementsOf(i)) : BranchElementsOf(i)[k].hasName})

\* C6 amended: an item has one branch per branch element of its detail page,
\* named or not, in order; the entry of an element without a name has an empty
\* name and no items.
C6_UnnamedBranchKeptEmpty ==
    \A i \in 1..Len(items_found) :
        /\ Len(items_found[i].branches) = Len(BranchElementsOf(i))
        /\ \A k \in 1..Len(BranchElementsOf(i)) :
             IF BranchElementsOf(i)[k].hasName
             THEN items_found[i].branches[k].name = BranchElementsOf(i)[k].name
             ELSE /\ items_found[i].branches[k].name = ""
                  /\ items_found[i].branches[k].items = <<>>

\* C6 witness: an item was filled from a detail page with an unnamed branch
\* element that holds a row.
C6_Witness ==
    \E i \in 1..Len(items_found) :
        \E k \in 1..Len(BranchElementsOf(i)) :
            /\ ~BranchElementsOf(i)[k].hasName
            /\ BranchElementsOf(i)[k].rows # <<>>
            /\ Len(items_found[i].branches) >= k

\* C7 as stated: a search without title and author returns with a non-empty
\* error message and no items.
C7_InvalidQuerySurfaced ==
    (Returned /\ title = "" /\ author = "")
    => /\ error_message # ""
       /\ items_found = <<>>

\* C7 amended: a search without title and author returns with an empty error
\* message (the message is only logged) and no items; the error message is
\* non-empty only when the one listing fetch gave no document (None or a body
\* of no bytes), and is then "could not get web page".
C7_InvalidQueryOnlyLogged ==
    /\ (Returned /\ title = "" /\ author = "")
       => /\ error_message = ""
          /\ items_found = <<>>
          /\ must_supply \in logged
    /\ error_message # ""
       => /\ error_message = "could not get web page"
          /\ Len(fetch_log) = 1
          /\ fetch_log[1].listing
          /\ fetch_log[1].result.isNone \/ fetch_log[1].resp.content.empty
          /\ ~(title = "" /\ author = "")

\* C7 witness: a search without title and author has returned, its message
\* logged and its error message empty.
C7_Witness ==
    /\ pc = "returned"
    /\ title = ""
    /\ author = ""
    /\ must_supply \in logged
    /\ search_results[1].error_message = ""

\* The name of the k-th -t line with content.
TitleLines == {i \in 1..Len(lines) : IsDirective(lines[i], "-t")}

NthTitleLine(k) ==
    CHOOSE i \in TitleLines : Cardinality({j \in TitleLines : j <= i}) = k

\* The content of the last d-line with content before line i, "" if none.
LastContent(d, i) ==
    LET before == {j \in 1..(i - 1) : j <= Len(lines) /\ IsDirective(lines[j], d)}
    IN  IF before = {} THEN ""
        ELSE Content(lines[CHOOSE j \in before : \A m \in before : m <= j])

\* The searches made so far are those of the first -t lines, in order, each with
\* its line's title and the author and borough current at that line.
SearchesMatchLines ==
    /\ Len(search_results) <= Cardinality(TitleLines)
    /\ \A k \in 1..Len(search_results) :
         /\ search_results[k].title = Content(lines[NthTitleLine(k)])
         /\ search_results[k].author = LastContent("-a", NthTitleLine(k))
         /\ search_results[k].borough = LastContent("-b", NthTitleLine(k))

\* C8: borough and author are the content of the latest -b / -a line; every -t
\* line with content gets its search; the run ends by returning one result set
\* per -t line, in file order.
C8_BatchOneSearchPerTitle ==
    /\ borough = LastContent("-b", lineIdx)
    /\ author = LastContent("-a", lineIdx)
    /\ SearchesMatchLines
    /\ pc \in {"returned", "raised"}
       => /\ pc = "returned"
          /\ Len(search_results) = Cardinality(TitleLines)

\* The part of C8 that holds: the line handling, on the runs no search ends
\* with an exception.
BatchLinesHandled ==
    /\ borough = LastContent("-b", lineIdx)
    /\ author = LastContent("-a", lineIdx)
    /\ SearchesMatchLines
    /\ pc = "returned" => Len(search_results) = Cardinality(TitleLines)

\* C9: search_url is a function of (title, author, borough): the namespace url,
\* "items?query=", a title clause iff there is a title, and the AND-joined
\* author clause with the availability anchor iff there are both; an author
\* without title adds nothing.
C9_SearchUrlClosedForm ==
    (pc # "init" /\ (title # "" \/ author # ""))
    => LET ns == "https://capitadiscovery.co.uk/"
                    \o (IF borough = "" THEN "islington" ELSE borough) \o "/"
       IN  /\ borough_url = ns
           /\ title # "" /\ author # ""
              => search_url = ns \o "items?query=+title%3A%28" \o title
                                 \o "%29+AND+author%3A%28" \o author \o "%29#availability"
           /\ title # "" /\ author = ""
              => search_url = ns \o "items?query=+title%3A%28" \o title \o "%29"
           /\ title = "" /\ author # ""
              => search_url = ns \o "items?query="
           /\ (title = "emma" /\ author = "austen" /\ borough = "camden")
              => search_url = "https://capitadiscovery.co.uk/camden/items?query=+title%3A%28emma%29+AND+author%3A%28austen%29#availability"

\* C9 witness: an author-only search has returned with the bare query url.
C9_Witness ==
    /\ pc = "returned"
    /\ title = ""
    /\ author = "austen"
    /\ borough = ""
    /\ search_results[1].search_url = "https://capitadiscovery.co.uk/islington/items?query="

\* C10: simple_get never raises; it returns the body only for status 200 with a
\* content type containing "html", and None for a transport error, another
\* status, another content type or no declared content type.
C10_FetchNeverRaises ==
    \A k \in 1..Len(fetch_log) :
        LET f == fetch_log[k]
        IN  /\ f.result.raised = "none"
            /\ ~f.result.isNone
               => /\ ~f.resp.requestException
                  /\ f.resp.status = 200
                  /\ f.resp.contentType \in {c_text_html, c_TEXT_HTML}
                  /\ f.result.content = f.resp.content
            /\ (FailureResponse(f.resp) \/ ~f.resp.hasContentType) => f.result.isNone

====
